---- MODULE Spec2Model ----
(***************************************************************************)
(* A model of hcrp/labelling.py: the fixed-size rectangle selector, the    *)
(* mean-region sampling session with its reset and retry, the point        *)
(* collector (get_spline / get_contour) and the per-channel tables that    *)
(* label builds.                                                           *)
(*                                                                         *)
(* Coordinates.  Pointer positions and selector bounds are floats in the   *)
(* program.  Here they are integers counting 1/Scale of a pixel, so that   *)
(* a bound e stands for the float e/Scale.  The size parameter, the image  *)
(* indices and the results of int() are whole pixels.  A recorded center   *)
(* (x1 + x2) / 2 of two whole numbers is held as its numerator x1 + x2,    *)
(* i.e. in half pixels.  A mean is held as the reduced fraction            *)
(* <<sum, count>>; the mean of an empty array (NaN) is <<0, 0>>.           *)
(***************************************************************************)
EXTENDS Integers, Sequences, FiniteSets

\* ------------------------------------------------------------------ bounds

\* Sub-pixel resolution of the pointer: coordinates count 1/Scale pixel.
Scale == 2
\* The raw image has ImgSize rows and ImgSize columns.
ImgSize == 2
\* At most MaxSamples selections are confirmed in one session.
MaxSamples == 2
\* At most MaxPoints points are clicked in one point-collector run.
MaxPoints == 3
\* get_mean_region is entered at most MaxCalls times (the first call and
\* its retries).
MaxCalls == 2

\* The size parameters tried (pixels).
Sizes == {1, 2}
\* Pointer coordinates of press and move events (1/Scale pixel).
PointerCoords == {0, 1}
Pointers == PointerCoords \X PointerCoords
\* The selector's lower bounds are kept within this range (1/Scale pixel).
Drift == -2 .. 2
\* The handles a press can grab: "C" is the whole-shape move handle.
Handles == {"C", "E"}
\* Pixel coordinates of the point collector's mouse events.
ClickCoords == {0, 1}
\* The mouse events delivered to the point collector's callback.
MouseEvents ==
    {"EVENT_LBUTTONDOWN", "EVENT_LBUTTONUP", "EVENT_RBUTTONDOWN",
     "EVENT_MOUSEMOVE"}
\* The keys cv2.waitKey reports ("none": no key within the delay).
Keys == {"q", "r", "none"}
\* The channel lists label is called with; the first is its default.
ChannelLists ==
    {<<"brk", "dpp", "pMad", "nuclear">>, <<"brk", "nuclear">>,
     <<"brk", "dpp">>}
\* The middle-layer indices int(mid_frac * stack.shape[0]) tried.
MidLayers == {1, 5}
\* The point lists get_contour and get_spline return to label.
PointLists == {<<<<0, 1>>>>, <<<<1, 0>>, <<1, 1>>>>}
\* Where the user leaves the selector before confirming, in label's calls
\* of get_mean_region: the lower bounds <<x0, y0>> (1/Scale pixel).
LabelPositions == {<<0, 0>>, <<2, 0>>}

None == <<>>
NoValue == <<"no value">>

VARIABLES
    entry,             \* the function that was called
    \* get_mean_region
    size,              \* parameter size
    high_contrast,     \* the displayed image (after the default of line 97)
    title,             \* the axes title
    extents,           \* selector.extents: <<x0, x1, y0, y1>>
    eventpress,        \* selector._eventpress: <<x, y>> or None
    extents_on_press,  \* selector._extents_on_press or None
    active_handle,     \* selector._active_handle, "None" when there is none
    means,             \* list means
    centers,           \* list centers
    extent,            \* onselect's local extent: the extents it read last
    confirmed,         \* history: selections confirmed since the last reset
    calls,             \* history: how many times get_mean_region was entered
    window,            \* "open" while plt.show() blocks, then "closed"
    ret,               \* the value get_mean_region returned, or NoValue
    \* get_spline
    window_name,       \* the window title of the point collector
    roi_points,        \* list roi_points
    drawn,             \* what was drawn on image_with_roi_equalized
    clicks,            \* history: the left-button-down events delivered
    spline_ret,        \* the value get_spline returned, or NoValue
    \* label
    label_pc,          \* the position in label
    mid_layer,         \* the middle-layer index
    channel_names,     \* parameter channel_names
    j,                 \* the loop index of line 176 (1-based here)
    background,        \* locals of lines 180-188
    background_center,
    signal_background,
    signal_background_center,
    background_df,     \* the tables: sequences of <<index label, row>>
    signal_background_df,
    saved              \* the two CSV files written at lines 201 and 203

session_vars == <<size, high_contrast, title, extents, eventpress,
                  extents_on_press, active_handle, means, centers,
                  extent, confirmed, calls, window, ret>>
spline_vars == <<window_name, roi_points, drawn, clicks, spline_ret>>
label_vars == <<label_pc, mid_layer, channel_names, j, background,
                background_center, signal_background,
                signal_background_center, background_df,
                signal_background_df, saved>>
vars == <<entry, session_vars, spline_vars, label_vars>>

\* ------------------------------------------------------------ the raw image

Min(a, b) == IF a < b THEN a ELSE b
Max(a, b) == IF a > b THEN a ELSE b

RECURSIVE GCD(_, _)
GCD(a, b) == IF b = 0 THEN a ELSE GCD(b, a % b)

\* The pixel of channel c at row r and column col: a ramp, so that regions
\* at different places have different means.
Pixel(c, r, col) == c * ImgSize * ImgSize + r * ImgSize + col + 1

\* int(e) of the float e/Scale: Python truncates toward zero.
ToInt(e) == IF e >= 0 THEN e \div Scale ELSE -((-e) \div Scale)

\* The indices a[lo:hi] selects from an axis of length n: a negative bound
\* counts from the end, and both are clipped to the axis.
SliceBound(i, n) == IF i < 0 THEN Max(i + n, 0) ELSE Min(i, n)
Slice(lo, hi, n) ==
    {k \in 0 .. n - 1 : SliceBound(lo, n) <= k /\ k < SliceBound(hi, n)}

RECURSIVE SumOver(_, _)
SumOver(c, cells) ==
    IF cells = {} THEN 0
    ELSE LET cell == CHOOSE x \in cells : TRUE
         IN  Pixel(c, cell[1], cell[2]) + SumOver(c, cells \ {cell})

\* np.mean(image[y1:y2, x1:x2]) of channel c.
RegionRows(y1, y2) == Slice(y1, y2, ImgSize)
RegionCols(x1, x2) == Slice(x1, x2, ImgSize)
RegionMean(c, x1, x2, y1, y2) ==
    LET cells == RegionRows(y1, y2) \X RegionCols(x1, x2)
        n == Cardinality(cells)
        s == SumOver(c, cells)
        g == GCD(s, n)
    IN  IF n = 0 THEN <<0, 0>> ELSE <<s \div g, n \div g>>

\* ------------------------------------------ FixedSizeRectangleSelector

InitialExtents(sz) == <<0, sz * Scale, 0, sz * Scale>>

\* The bound on where the selector is dragged.
InDrift(e) == e[1] \in Drift /\ e[3] \in Drift

\* The extents _onmove sets for a move event at pointer c.  The two
\* variants before it are _onmove with a bound left unshifted, and with
\* the shift applied to the current extents.
OnMoveStretch(c) ==
    LET dx == c[1] - eventpress[1]
        dy == c[2] - eventpress[2]
        e == extents_on_press
    IN  IF active_handle = "C"
        THEN <<e[1] + dx, e[2], e[3] + dy, e[4]>>
        ELSE e
OnMoveAccumulate(c) ==
    LET dx == c[1] - eventpress[1]
        dy == c[2] - eventpress[2]
        e == extents
    IN  IF active_handle = "C"
        THEN <<e[1] + dx, e[2] + dx, e[3] + dy, e[4] + dy>>
        ELSE extents_on_press
OnMoveExtents(c) ==
    LET dx == c[1] - eventpress[1]
        dy == c[2] - eventpress[2]
        e == extents_on_press
    IN  IF active_handle = "C"
        THEN <<e[1] + dx, e[2] + dx, e[3] + dy, e[4] + dy>>
        ELSE e

\* ------------------------------------------------------ get_mean_region

Name == "name"
InitialTitle == Name
ResetTitle == "Select a region of interest for name"

\* Lines 96-97: the displayed image defaults to the raw image.
Displayed(hc) == IF hc = "None" THEN "image" ELSE hc

\* The record onselect appends for the selector's extents e.
SelectedMean(e) == RegionMean(0, ToInt(e[1]), ToInt(e[2]), ToInt(e[3]), ToInt(e[4]))
SelectedCenterOfFloats(e) ==
    <<(e[1] + e[2]) \div Scale, (e[3] + e[4]) \div Scale>>
SelectedCenter(e) == <<ToInt(e[1]) + ToInt(e[2]), ToInt(e[3]) + ToInt(e[4])>>

\* What the session holds: <<means, centers, extents, title>>.
SessionResults == <<means, centers, extents, title>>
\* What lines 130-133 leave of it.
ResetPopsLast ==
    <<SubSeq(means, 1, Len(means) - 1), centers, InitialExtents(size),
      ResetTitle>>
ResetOutcome == <<<<>>, centers, InitialExtents(size), ResetTitle>>

\* The value of "return means[-1], centers[-1]".
ReturnFirst == <<means[1], centers[1]>>
ReturnValue == <<means[Len(means)], centers[Len(centers)]>>

\* The arguments of the recursive call of line 142:
\* <<high_contrast, size>> (image and name are never rebound).
RetryArgsDefaultImage == <<"image", size>>
RetryArgs == <<high_contrast, size>>

other_vars == <<spline_vars, label_vars>>

\* Lines 95-126 and 136-137: a fresh figure, empty results, the selector at
\* (0, size, 0, size), and plt.show() blocking.
Session(hc, sz) ==
    /\ size = sz
    /\ high_contrast = Displayed(hc)
    /\ title = InitialTitle
    /\ extents = InitialExtents(sz)
    /\ eventpress = None
    /\ extents_on_press = None
    /\ active_handle = "None"
    /\ means = <<>>
    /\ centers = <<>>
    /\ extent = None
    /\ confirmed = 0
    /\ calls = 1
    /\ window = "open"
    /\ ret = NoValue

\* The values the session's variables keep while another function runs.
SessionIdle ==
    /\ high_contrast = "None"
    /\ title = ""
    /\ extents = None
    /\ eventpress = None
    /\ extents_on_press = None
    /\ active_handle = "None"
    /\ means = <<>>
    /\ centers = <<>>
    /\ extent = None
    /\ confirmed = 0
    /\ calls = 0
    /\ window = "closed"
    /\ ret = NoValue

\* A button press on the selector: the press event, the extents at press
\* time and the grabbed handle are recorded.
Press(p, h) ==
    /\ entry = "get_mean_region"
    /\ window = "open"
    /\ eventpress = None
    /\ eventpress' = p
    /\ extents_on_press' = extents
    /\ active_handle' = h
    /\ UNCHANGED <<entry, size, high_contrast, title, extents, means,
                   centers, extent, confirmed, calls, window, ret,
                   other_vars>>

\* A pointer move during a drag: _onmove.
OnMove(c) ==
    /\ entry = "get_mean_region"
    /\ window = "open"
    /\ eventpress # None
    /\ InDrift(OnMoveExtents(c))
    /\ extents' = OnMoveExtents(c)
    /\ UNCHANGED <<entry, size, high_contrast, title, eventpress,
                   extents_on_press, active_handle, means, centers,
                   extent, confirmed, calls, window, ret, other_vars>>

\* The button release that ends a drag: the selector calls onselect.
OnSelect ==
    /\ entry = "get_mean_region"
    /\ window = "open"
    /\ eventpress # None
    /\ Len(centers) < MaxSamples
    /\ extent' = extents
    /\ means' = Append(means, SelectedMean(extents))
    /\ centers' = Append(centers, SelectedCenter(extents))
    /\ confirmed' = confirmed + 1
    /\ eventpress' = None
    /\ extents_on_press' = None
    /\ active_handle' = "None"
    /\ UNCHANGED <<entry, size, high_contrast, title, extents, calls,
                   window, ret, other_vars>>

\* A key press: reset acts on "r" only.
Reset(key) ==
    /\ entry = "get_mean_region"
    /\ window = "open"
    /\ IF key = "r"
       THEN /\ means' = ResetOutcome[1]
            /\ centers' = ResetOutcome[2]
            /\ extents' = ResetOutcome[3]
            /\ title' = ResetOutcome[4]
            /\ confirmed' = 0
       ELSE UNCHANGED <<means, centers, confirmed, extents, title>>
    /\ UNCHANGED <<entry, size, high_contrast, eventpress, extents_on_press,
                   active_handle, extent, calls, window, ret, other_vars>>

\* The window closes and "return means[-1], centers[-1]" succeeds.
ShowReturns ==
    /\ entry = "get_mean_region"
    /\ window = "open"
    /\ Len(means) > 0 /\ Len(centers) > 0
    /\ ret' = ReturnValue
    /\ window' = "closed"
    /\ eventpress' = None
    /\ extents_on_press' = None
    /\ active_handle' = "None"
    /\ UNCHANGED <<entry, size, high_contrast, title, extents, means,
                   centers, extent, confirmed, calls, other_vars>>

\* The window closes and means[-1] or centers[-1] raises IndexError: the
\* function calls itself, which builds a fresh session.
ShowRetries ==
    /\ entry = "get_mean_region"
    /\ window = "open"
    /\ Len(means) = 0 \/ Len(centers) = 0
    /\ calls < MaxCalls
    /\ calls' = calls + 1
    /\ extent' = None
    /\ size' = RetryArgs[2]
    /\ high_contrast' = Displayed(RetryArgs[1])
    /\ title' = InitialTitle
    /\ extents' = InitialExtents(RetryArgs[2])
    /\ eventpress' = None
    /\ extents_on_press' = None
    /\ active_handle' = "None"
    /\ means' = <<>>
    /\ centers' = <<>>
    /\ confirmed' = 0
    /\ window' = "open"
    /\ ret' = NoValue
    /\ UNCHANGED <<entry, other_vars>>

\* The values the other functions' variables keep during a session.
SplineIdle ==
    /\ window_name = ""
    /\ roi_points = <<>>
    /\ drawn = <<>>
    /\ clicks = <<>>
    /\ spline_ret = NoValue

LabelIdle ==
    /\ label_pc = "idle"
    /\ mid_layer = 0
    /\ channel_names = <<>>
    /\ j = 0
    /\ background = None
    /\ background_center = None
    /\ signal_background = None
    /\ signal_background_center = None
    /\ background_df = <<>>
    /\ signal_background_df = <<>>
    /\ saved = <<>>

Init ==
    /\ entry = "get_mean_region"
    /\ \E hc \in {"None", "hc"}, sz \in Sizes : Session(hc, sz)
    /\ SplineIdle
    /\ LabelIdle

Next ==
    \/ \E p \in Pointers, h \in Handles : Press(p, h)
    \/ \E c \in Pointers : OnMove(c)
    \/ OnSelect
    \/ \E key \in {"r", "x"} : Reset(key)
    \/ ShowReturns
    \/ ShowRetries

Spec == Init /\ [][Next]_vars

\* ----------------------------------------------- get_spline, get_contour

\* Lines 55-56 and 85-87: the window title.
WindowName(fn) ==
    IF fn = "get_contour"
    THEN "Manually input Contour for name"
    ELSE "Manually input Spline for name"

\* Line 60: roi_points after a left-button-down at p.
AppendIfNew(points, p) ==
    IF \E i \in 1 .. Len(points) : points[i] = p
    THEN points
    ELSE Append(points, p)
AppendPoint(points, p) == Append(points, p)

\* Lines 61-69: the marker, and the segment from the point before.
DrawPoint(points) ==
    LET n == Len(points)
    IN  <<<<"circle", points[n]>>>> \o
        (IF n > 1 THEN <<<<"line", points[n - 1], points[n]>>>> ELSE <<>>)

\* The mouse callback.
MouseCallback(event, x, y) ==
    /\ entry \in {"get_spline", "get_contour"}
    /\ spline_ret = NoValue
    /\ event = "EVENT_LBUTTONDOWN" => Len(roi_points) < MaxPoints
    /\ IF event = "EVENT_LBUTTONDOWN"
       THEN /\ roi_points' = AppendPoint(roi_points, <<x, y>>)
            /\ drawn' = drawn \o DrawPoint(AppendPoint(roi_points, <<x, y>>))
            /\ clicks' = Append(clicks, <<x, y>>)
       ELSE UNCHANGED <<roi_points, drawn, clicks>>
    /\ UNCHANGED <<entry, session_vars, label_vars, window_name, spline_ret>>

\* One turn of the loop of lines 75-78, and lines 79-80 when it breaks.
WaitKey(key) ==
    /\ entry \in {"get_spline", "get_contour"}
    /\ spline_ret = NoValue
    /\ IF key = "q"
       THEN spline_ret' = roi_points
       ELSE UNCHANGED spline_ret
    /\ UNCHANGED <<entry, session_vars, label_vars, window_name, roi_points,
                   drawn, clicks>>

InitSpline ==
    /\ entry \in {"get_spline", "get_contour"}
    /\ size = 0
    /\ SessionIdle
    /\ window_name = WindowName(entry)
    /\ roi_points = <<>>
    /\ drawn = <<>>
    /\ clicks = <<>>
    /\ spline_ret = NoValue
    /\ LabelIdle

NextSpline ==
    \/ \E event \in MouseEvents, x \in ClickCoords, y \in ClickCoords :
          MouseCallback(event, x, y)
    \/ \E key \in Keys : WaitKey(key)

SpecSpline == InitSpline /\ [][NextSpline]_vars

\* ------------------------------------------------------------------ label

\* Line 173.
columns == <<"mean_intensity", "window_length", "x", "y", "z">>

\* The value under column name col of a row.
Cell(row, col) == row[CHOOSE i \in 1 .. Len(columns) : columns[i] = col]

\* Lines 189-194 and 195-200: the list assigned to a row.
RowValues(mean, center) == <<mean, center[1], center[2], mid_layer, size>>

\* df.loc[name] = values: the row called name is replaced, or a new row is
\* added at the end.
LocAssign(df, name, values) ==
    IF \E i \in 1 .. Len(df) : df[i][1] = name
    THEN [i \in 1 .. Len(df) |->
             IF df[i][1] = name THEN <<name, values>> ELSE df[i]]
    ELSE Append(df, <<name, values>>)

\* A value get_mean_region can return for channel c: the sample of a
\* selector the user left at lower bounds pos.
Returned(c, pos) ==
    LET e == <<pos[1], pos[1] + size * Scale, pos[2], pos[2] + size * Scale>>
    IN  <<RegionMean(c, ToInt(e[1]), ToInt(e[2]), ToInt(e[3]), ToInt(e[4])),
          SelectedCenter(e)>>

\* The x, y, z rows of a point file (lines 161-162 and 167-168).
PointRows(points) ==
    [i \in 1 .. Len(points) |-> <<points[i][1], points[i][2], mid_layer>>]

label_locals == <<background, background_center, signal_background,
                  signal_background_center>>

\* Line 153.
LabelAssert ==
    /\ entry = "label"
    /\ label_pc = "start"
    /\ label_pc' = IF channel_names[Len(channel_names)] = "nuclear"
                   THEN "contour"
                   ELSE "AssertionError"
    /\ UNCHANGED <<entry, session_vars, spline_vars, mid_layer,
                   channel_names, j, label_locals, background_df,
                   signal_background_df, saved>>

\* Lines 158-164: the contour is captured and written.
LabelContour(points) ==
    /\ entry = "label"
    /\ label_pc = "contour"
    /\ saved' = Append(saved, <<"contour.csv", PointRows(points)>>)
    /\ label_pc' = "spline"
    /\ UNCHANGED <<entry, session_vars, spline_vars, mid_layer,
                   channel_names, j, label_locals, background_df,
                   signal_background_df>>

\* Lines 165-175: the spline is captured and written; the tables are made.
LabelSpline(points) ==
    /\ entry = "label"
    /\ label_pc = "spline"
    /\ saved' = Append(saved, <<"spline.csv", PointRows(points)>>)
    /\ background_df' = <<>>
    /\ signal_background_df' = <<>>
    /\ j' = 1
    /\ label_pc' = "background"
    /\ UNCHANGED <<entry, session_vars, spline_vars, mid_layer,
                   channel_names, label_locals>>

\* Lines 176-182: the background region of channel j is sampled.
LabelBackground(pos) ==
    /\ entry = "label"
    /\ label_pc = "background"
    /\ j <= Len(channel_names) - 1
    /\ background' = Returned(j - 1, pos)[1]
    /\ background_center' = Returned(j - 1, pos)[2]
    /\ label_pc' = "signal"
    /\ UNCHANGED <<entry, session_vars, spline_vars, mid_layer,
                   channel_names, j, signal_background,
                   signal_background_center, background_df,
                   signal_background_df, saved>>

\* Lines 183-200: the signal region is sampled and both rows are set.
LabelSignal(pos) ==
    /\ entry = "label"
    /\ label_pc = "signal"
    /\ signal_background' = Returned(j - 1, pos)[1]
    /\ signal_background_center' = Returned(j - 1, pos)[2]
    /\ background_df' =
           LocAssign(background_df, channel_names[j],
                     RowValues(background, background_center))
    /\ signal_background_df' =
           LocAssign(signal_background_df, channel_names[j],
                     RowValues(Returned(j - 1, pos)[1],
                               Returned(j - 1, pos)[2]))
    /\ j' = j + 1
    /\ label_pc' = "background"
    /\ UNCHANGED <<entry, session_vars, spline_vars, mid_layer,
                   channel_names, background, background_center, saved>>

\* Lines 201-205: the tables are written.
LabelSave ==
    /\ entry = "label"
    /\ label_pc = "background"
    /\ j > Len(channel_names) - 1
    /\ saved' = saved \o
           <<<<"background.csv", columns, background_df>>,
             <<"signal_background.csv", columns, signal_background_df>>>>
    /\ label_pc' = "done"
    /\ UNCHANGED <<entry, session_vars, spline_vars, mid_layer,
                   channel_names, j, label_locals, background_df,
                   signal_background_df>>

InitLabel ==
    /\ entry = "label"
    /\ size \in Sizes
    /\ SessionIdle
    /\ SplineIdle
    /\ label_pc = "start"
    /\ mid_layer \in MidLayers
    /\ channel_names \in ChannelLists
    /\ j = 0
    /\ background = None
    /\ background_center = None
    /\ signal_background = None
    /\ signal_background_center = None
    /\ background_df = <<>>
    /\ signal_background_df = <<>>
    /\ saved = <<>>

NextLabel ==
    \/ LabelAssert
    \/ \E points \in PointLists : LabelContour(points)
    \/ \E points \in PointLists : LabelSpline(points)
    \/ \E pos \in LabelPositions : LabelBackground(pos)
    \/ \E pos \in LabelPositions : LabelSignal(pos)
    \/ LabelSave

SpecLabel == InitLabel /\ [][NextLabel]_vars

\* ------------------------------------------------------------ properties

Shifted(e, dx, dy) == <<e[1] + dx, e[2] + dx, e[3] + dy, e[4] + dy>>
Last(q) == q[Len(q)]
\* A step that ends plt.show(): the window closes or the function is
\* entered again.
WindowCloses == window = "open" /\ (window' = "closed" \/ calls' # calls)

\* C1: after every event of a session the selector is size wide and size
\* high (in 1/Scale pixel: size * Scale).
C1_FixedSize ==
    /\ extents[2] - extents[1] = size * Scale
    /\ extents[4] - extents[3] = size * Scale
\* C1 witness: a whole-shape drag has moved the selector, after a reset.
C1_Witness ==
    /\ active_handle = "C"
    /\ extents # extents_on_press
    /\ title = ResetTitle

\* C2: every move event of a whole-shape drag leaves the extents recorded at
\* press time shifted by (cx - px, cy - py), and leaves the press record
\* as it was, so the extents depend only on the last pointer position.
C2_Translation ==
    [][\A c \in Pointers :
         (OnMove(c) /\ active_handle = "C") =>
             /\ extents' = Shifted(extents_on_press, c[1] - eventpress[1],
                                   c[2] - eventpress[2])
             /\ extents_on_press' = extents_on_press
             /\ eventpress' = eventpress]_vars
\* C2 witness: a drag pressed at (1, 0) whose pointer is now at (0, 1): the
\* selector sits left and down of where it was at press time.
C2_Witness ==
    /\ active_handle = "C"
    /\ eventpress = <<1, 0>>
    /\ extents = Shifted(extents_on_press, -1, 1)

\* C3: the session holds one mean and one center per selection confirmed
\* since the last reset.
C3_OneRecordPerSelection ==
    Len(means) = confirmed /\ Len(centers) = confirmed

C5_ReturnsLast ==
    [][(WindowCloses /\ Len(means) > 0) =>
          /\ window' = "closed"
          /\ calls' = calls
          /\ ret' = <<Last(means), Last(centers)>>
          /\ ret' = <<SelectedMean(extent), SelectedCenter(extent)>>]_vars
\* C5 witness: a session that returned after two different selections.
C5_Witness ==
    /\ window = "closed"
    /\ ret # NoValue
    /\ Len(means) = 2
    /\ means[1] # means[2]
    /\ centers[1] # centers[2]

\* C8: reset is idempotent: what a reset leaves is what a second reset
\* would leave, and a reset of empty results leaves them empty with the
\* extents at (0, size, 0, size).
C8_ResetIdempotent ==
    [][Reset("r") =>
          /\ ResetOutcome' = SessionResults'
          /\ (means = <<>> =>
                 means' = <<>> /\ extents' = InitialExtents(size))]_vars
\* C8 witness: a reset has cleared two recorded means.
C8_Witness ==
    /\ title = ResetTitle
    /\ means = <<>>
    /\ Len(centers) = 2
    /\ extents = InitialExtents(size)

C10_RegionIsSizeBySize ==
    extent # None =>
        LET x1 == ToInt(extent[1])
            x2 == ToInt(extent[2])
            y1 == ToInt(extent[3])
            y2 == ToInt(extent[4])
        IN  /\ RegionRows(y1, y2) = y1 .. y2 - 1
            /\ RegionCols(x1, x2) = x1 .. x2 - 1
            /\ Cardinality(RegionRows(y1, y2)) = size
            /\ Cardinality(RegionCols(x1, x2)) = size

\* C6: when label has run, each table has one row per channel except the
\* last, in channel order, under the five columns, and a row holds the
\* sampled mean under mean_intensity, size under window_length, the
\* sample's center under x and y, and the middle layer under z.
C6_ChannelTables ==
    (label_pc \in {"background", "done"} /\ j > 1) =>
        LET b == background_df[j - 1][2]
            sb == signal_background_df[j - 1][2]
        IN  /\ Len(background_df) = j - 1
            /\ Len(signal_background_df) = j - 1
            /\ \A i \in 1 .. j - 1 :
                   /\ background_df[i][1] = channel_names[i]
                   /\ signal_background_df[i][1] = channel_names[i]
                   /\ Len(background_df[i][2]) = 5
                   /\ Len(signal_background_df[i][2]) = 5
            /\ columns = <<"mean_intensity", "window_length", "x", "y", "z">>
            /\ Cell(b, "mean_intensity") = background
            /\ Cell(b, "window_length") = size
            /\ Cell(b, "x") = background_center[1]
            /\ Cell(b, "y") = background_center[2]
            /\ Cell(b, "z") = mid_layer
            /\ Cell(sb, "mean_intensity") = signal_background
            /\ Cell(sb, "window_length") = size
            /\ Cell(sb, "x") = signal_background_center[1]
            /\ Cell(sb, "y") = signal_background_center[2]
            /\ Cell(sb, "z") = mid_layer

\* C7: the point list is the list of left-button-down positions in the
\* order they were delivered, whatever other mouse events came between;
\* it is what the function returns, and it returns only on the key q.
C7_ClickOrder ==
    /\ [](roi_points = clicks)
    /\ [](spline_ret # NoValue => spline_ret = clicks)
    /\ [][spline_ret' # spline_ret => WaitKey("q")]_vars
\* C7 witness: get_contour has returned three clicks, the first and the last at the
\* same place.
C7_Witness ==
    /\ entry = "get_contour"
    /\ spline_ret # NoValue
    /\ Len(spline_ret) = 3
    /\ spline_ret[1] = spline_ret[3]
    /\ spline_ret[1] # spline_ret[2]

====
